---- MODULE Spec2Model ----
(***************************************************************************)
(* QuickGrav (src/src/main.rs, src/src/default_space.rs): the session      *)
(* object Space, its event/update/draw handlers, the integrator and the    *)
(* persistence calls, as a state machine.                                  *)
(*                                                                         *)
(* Numbers.  The program computes in f32.  Here an f32 is an integer       *)
(* counting tenths (Scale) that keeps three significant decimal digits     *)
(* (Mantissa), every arithmetic operation rounds its exact result toward   *)
(* zero to such a number, and the one non-finite value that survives a     *)
(* tick, NaN, is a separate value that every operation propagates.         *)
(*                                                                         *)
(* Handlers run one at a time (quicksilver calls event, update and draw    *)
(* from one loop), so each is one action; only the search of Key::R, which *)
(* may not return, has a position of its own (pc = "find").  A panic ends  *)
(* the session: pc = "panicked" and no action is enabled.                  *)
(*                                                                         *)
(* Left out: Key::Tab and clear_screen (what is painted), the font asset   *)
(* and its failure to render, and halving the time step or the update     *)
(* rate below their defaults.                                              *)
(***************************************************************************)
EXTENDS Integers, Sequences, FiniteSets, TLC

(* ------------------------------ bounds --------------------------------- *)
\* ticks that integrate (update with paused = false) in one behaviour
MaxTicks == 1
\* doublings of the time step and of the update rate above their defaults
\* that are in effect at once
MaxDoublings == 1
\* largest planet index centered_at may reach while the planet set is
\* empty and the build wraps planets.len() - 1
MaxStaleIndex == 1
\* largest planet set handed to integrate on its own
MaxPlanets == 4

(* ------------------------------ f32 ------------------------------------ *)
Scale == 10
NaN == 0 - 999999999

RECURSIVE Pow2(_)
Pow2(k) == IF k = 0 THEN 1 ELSE 2 * Pow2(k - 1)

\* exact quotient rounded toward zero (b > 0)
TruncDiv(a, b) == IF a >= 0 THEN a \div b ELSE 0 - ((0 - a) \div b)

\* an f32 keeps a bounded number of significant digits: the digits of x
\* below the leading ones are dropped
Mantissa == 1000
RECURSIVE RoundAt(_, _)
RoundAt(x, unit) ==
    IF x < Mantissa * unit THEN (x \div unit) * unit
    ELSE RoundAt(x, unit * 10)
Round(x) == IF x >= 0 THEN RoundAt(x, 1) ELSE 0 - RoundAt(0 - x, 1)

IsNaN(a) == a = NaN
FAdd(a, b) == IF IsNaN(a) \/ IsNaN(b) THEN NaN ELSE Round(a + b)
FSub(a, b) == IF IsNaN(a) \/ IsNaN(b) THEN NaN ELSE Round(a - b)
FMul(a, b) ==
    IF IsNaN(a) \/ IsNaN(b) THEN NaN ELSE Round(TruncDiv(a * b, Scale))
\* FDiv giving 0 for a zero divisor
FDiv_Guarded(a, b) ==
    IF IsNaN(a) \/ IsNaN(b) THEN NaN
    ELSE IF b = 0 THEN 0
    ELSE IF b > 0 THEN Round(TruncDiv(a * Scale, b))
    ELSE Round(TruncDiv((0 - a) * Scale, 0 - b))

\* x / 0 is an infinity (0 / 0 a NaN) in f32; the integrator only ever
\* multiplies that quotient by normalize() of the zero vector, which is NaN,
\* so the quotient by zero is carried as NaN.
FDiv(a, b) ==
    IF IsNaN(a) \/ IsNaN(b) \/ b = 0 THEN NaN
    ELSE IF b > 0 THEN Round(TruncDiv(a * Scale, b))
    ELSE Round(TruncDiv((0 - a) * Scale, 0 - b))

RECURSIVE SqrtSearch(_, _, _)
SqrtSearch(lo, hi, x) ==
    IF lo >= hi THEN lo
    ELSE LET mid == (lo + hi + 1) \div 2
         IN  IF mid * mid <= x THEN SqrtSearch(mid, hi, x)
             ELSE SqrtSearch(lo, mid - 1, x)
FSqrt(a) ==
    IF IsNaN(a) \/ a < 0 THEN NaN ELSE Round(SqrtSearch(0, 46340, a * Scale))

(* ------------------------------ Vector --------------------------------- *)
Vec(x, y) == [x |-> x, y |-> y]
VAdd(u, v) == Vec(FAdd(u.x, v.x), FAdd(u.y, v.y))
VSub(u, v) == Vec(FSub(u.x, v.x), FSub(u.y, v.y))
VScale(u, s) == Vec(FMul(u.x, s), FMul(u.y, s))
len2(u) == FAdd(FMul(u.x, u.x), FMul(u.y, u.y))
len(u) == FSqrt(len2(u))
normalize(u) == LET l == len(u) IN Vec(FDiv(u.x, l), FDiv(u.y, l))

(* ------------------------------ Planet, Object ------------------------- *)
Color(r, g, b) == [r |-> r, g |-> g, b |-> b, a |-> Scale]
RED == Color(Scale, 0, 0)
GREEN == Color(0, Scale, 0)
BLUE == Color(0, 0, Scale)
CYAN == Color(0, Scale, Scale)

MkPlanet(p, v, m, c) ==
    [position |-> p, velocity |-> v, mass |-> m, color |-> c]

Barycenter == [tag |-> "Barycenter", i |-> 0]
Planet(i) == [tag |-> "Planet", i |-> i]

None == [is_some |-> FALSE, obj |-> Barycenter]
Some(o) == [is_some |-> TRUE, obj |-> o]

\* default_space::get_planets
get_planets ==
    << MkPlanet(Vec(0, 0), Vec(0, 0), 200 * Scale, RED),
       MkPlanet(Vec(100 * Scale, 0), Vec(0, 13), 5 * Scale, GREEN),
       MkPlanet(Vec(200 * Scale, 0), Vec(0, 11), 2 * Scale, BLUE),
       MkPlanet(Vec(300 * Scale, 0), Vec(0, 9), 2 * Scale, CYAN) >>

(* ------------------------------ integrate ------------------------------ *)
\* time_step is kept as the numerator of a fraction over TimeStepDen, so that
\* DEFAULT_TIME_STEP / TimeStepDen = 0.001
DEFAULT_TIME_STEP == 1
TimeStepDen == 1000
FMulT(a, ts) ==
    IF IsNaN(a) THEN NaN ELSE Round(TruncDiv(a * ts, TimeStepDen))
VScaleT(u, ts) == Vec(FMulT(u.x, ts), FMulT(u.y, ts))

\* Accumulate letting only the planets after ii pull on planet ii
RECURSIVE Accumulate_OnlyLater(_, _, _, _)
Accumulate_OnlyLater(ps, ii, jj, acc) ==
    IF jj > Len(ps) THEN acc
    ELSE IF ii < jj
         THEN LET distance == VSub(ps[jj].position, ps[ii].position)
                  acceleration_size == FDiv(ps[jj].mass, len2(distance))
              IN  Accumulate_OnlyLater(ps, ii, jj + 1,
                      VAdd(acc, VScale(normalize(distance), acceleration_size)))
         ELSE Accumulate_OnlyLater(ps, ii, jj + 1, acc)

\* the inner loop of integrate: jj runs over the planets in order, acc is
\* the acceleration accumulated so far for planet ii
RECURSIVE Accumulate(_, _, _, _)
Accumulate(ps, ii, jj, acc) ==
    IF jj > Len(ps) THEN acc
    ELSE IF ii # jj
         THEN LET distance == VSub(ps[jj].position, ps[ii].position)
                  acceleration_size == FDiv(ps[jj].mass, len2(distance))
              IN  Accumulate(ps, ii, jj + 1,
                      VAdd(acc, VScale(normalize(distance), acceleration_size)))
         ELSE Accumulate(ps, ii, jj + 1, acc)

\* integrate moving each planet by the velocity it had before the step
integrate_ExplicitEuler(ts, ps) ==
    [ii \in 1..Len(ps) |->
        LET acceleration == Accumulate(ps, ii, 1, Vec(0, 0))
            new_velocity == VAdd(ps[ii].velocity, VScaleT(acceleration, ts))
        IN  MkPlanet(VAdd(ps[ii].position, VScaleT(ps[ii].velocity, ts)),
                     new_velocity, ps[ii].mass, ps[ii].color)]

\* integrate pushing one planet fewer than it is given
integrate_DropsLast(ts, ps) ==
    [ii \in 1..(Len(ps) - 1) |->
        LET acceleration == Accumulate(ps, ii, 1, Vec(0, 0))
            new_velocity == VAdd(ps[ii].velocity, VScaleT(acceleration, ts))
        IN  MkPlanet(VAdd(ps[ii].position, VScaleT(new_velocity, ts)),
                     new_velocity, ps[ii].mass, ps[ii].color)]

integrate(ts, ps) ==
    [ii \in 1..Len(ps) |->
        LET acceleration == Accumulate(ps, ii, 1, Vec(0, 0))
            new_velocity == VAdd(ps[ii].velocity, VScaleT(acceleration, ts))
        IN  MkPlanet(VAdd(ps[ii].position, VScaleT(new_velocity, ts)),
                     new_velocity, ps[ii].mass, ps[ii].color)]

(* ------------------------------ persistence ---------------------------- *)
\* serde_json writes a finite f32 as the shortest numeral that reads back to
\* the same f32, and a non-finite one as null
\* (a numeral is carried as the number it denotes, null as JsonNull)
JsonNull == NaN - 1
JsonNum(a) == IF IsNaN(a) THEN JsonNull ELSE a

\* the nine numbers of one Planet in field order
PlanetToJson(p) ==
    << JsonNum(p.position.x), JsonNum(p.position.y),
       JsonNum(p.velocity.x), JsonNum(p.velocity.y),
       JsonNum(p.mass),
       JsonNum(p.color.r), JsonNum(p.color.g), JsonNum(p.color.b),
       JsonNum(p.color.a) >>

to_json(ps) == [k \in 1..Len(ps) |-> PlanetToJson(ps[k])]

\* a file: absent, bytes that are not JSON, or a JSON array of objects
NoFile == [kind |-> "missing", items |-> << >>]
Garbage == [kind |-> "malformed", items |-> << >>]
JsonFile(items) == [kind |-> "json", items |-> items]

\* Deserialize for Vec<Planet>: every element must have all the fields and a
\* number in each (null is not an f32)
ItemOk(it) == Len(it) = 9 /\ \A k \in 1..9 : it[k] # JsonNull
\* PlanetFromJson reading velocity where position is written and back
PlanetFromJson_Swapped(it) ==
    MkPlanet(Vec(it[3], it[4]), Vec(it[1], it[2]), it[5],
             [r |-> it[6], g |-> it[7], b |-> it[8], a |-> it[9]])

PlanetFromJson(it) ==
    MkPlanet(Vec(it[1], it[2]), Vec(it[3], it[4]), it[5],
             [r |-> it[6], g |-> it[7], b |-> it[8], a |-> it[9]])

DecodeOk(f) == f.kind = "json" /\ \A k \in 1..Len(f.items) : ItemOk(f.items[k])
from_slice(f) == [k \in 1..Len(f.items) |-> PlanetFromJson(f.items[k])]

\* LoadOrDefault taking the default whatever the file holds
LoadOrDefault_AlwaysDefault(f) == get_planets

\* match load/from_slice { Ok(planets) => planets, _ => get_planets() }
LoadOrDefault(f) == IF DecodeOk(f) THEN from_slice(f) ELSE get_planets

(* ------------------------------ inputs --------------------------------- *)
\* planet sets found in the files the session reads
SysOne == << MkPlanet(Vec(0, 0), Vec(0, 0), 100 * Scale, RED) >>
SysTwo ==
    << MkPlanet(Vec(0, 0), Vec(0, 0), 30000 * Scale, RED),
       MkPlanet(Vec(3 * Scale, 4 * Scale), Vec(2000, 0 - 1000),
                20000 * Scale, BLUE) >>
SysCoincident ==
    << MkPlanet(Vec(Scale, Scale), Vec(0, 0), 5 * Scale, RED),
       MkPlanet(Vec(Scale, Scale), Vec(0, 0), 5 * Scale, GREEN) >>
\* a well-formed set whose only planet has no mass
SysMassless == << MkPlanet(Vec(0, 0), Vec(0, 0), 0, RED) >>
\* a JSON array whose element lacks fields
SchemaMismatch == JsonFile(<< << JsonNum(0), JsonNum(0) >> >>)

Files ==
    { NoFile, Garbage, SchemaMismatch,
      JsonFile(<< >>), JsonFile(to_json(SysMassless)),
      JsonFile(to_json(SysTwo)),
      JsonFile(to_json(SysCoincident)) }

\* what the saved profile holds when the session starts
InitialProfiles ==
    { NoFile, Garbage, SchemaMismatch, JsonFile(to_json(SysOne)) }

\* planets of the sets integrate is applied to on its own: a light one at
\* the origin, a heavy one on one side of it, two on the other side, and
\* one at the very position of the first
Probe == MkPlanet(Vec(0, 0), Vec(0, 0), 10 * Scale, GREEN)
Heavy == MkPlanet(Vec(5 * Scale, 0), Vec(0, 0), 3000000 * Scale, RED)
NearA == MkPlanet(Vec(0 - 2 * Scale, 0), Vec(0, 50), 2000 * Scale, BLUE)
NearB == MkPlanet(Vec(0 - 4 * Scale, 0), Vec(0, 0), 8000 * Scale, CYAN)
Twin == MkPlanet(Vec(0, 0), Vec(0, 0), 20 * Scale, RED)
Pool == << Probe, Heavy, NearA, NearB, Twin >>

\* every sequence of 1..MaxPlanets different planets of Pool
IntegrateInputs ==
    { [k \in DOMAIN s |-> Pool[s[k]]] :
        s \in { t \in UNION { [1..n -> 1..Len(Pool)] : n \in 1..MaxPlanets } :
                  \A a, b \in DOMAIN t : a # b => t[a] # t[b] } }

(* ------------------------------ Space ---------------------------------- *)
VARIABLES
    planets,          \* Space::planets
    paused,           \* Space::paused
    time_step,        \* Space::time_step, numerator over TimeStepDen
    status_text_img,  \* Space::status_text_img, the text the image shows
    centered_at,      \* Space::centered_at
    rotate_with,      \* Space::rotate_with
    update_rate,      \* the window's update rate, in units of the default
    profile,          \* the file written by save and read by load
    pc,               \* "idle"; "find" inside Key::R; "panicked"
    rot_pos,          \* position of the iterator `rotations` in its cycle
    \* history of the behaviour, read by no handler
    ticks,            \* integrating ticks so far
    c_presses,        \* Key::C events since centered_at was Barycenter, 0
                      \* once the planet set was replaced in between
    r_presses,        \* Key::R events since rotate_with was None, 0 once
                      \* centered_at or the planet set changed in between
    saved_planets,    \* the planet set of the last successful save
    planets_from      \* the code that assigned planets last: "new",
                      \* "integrate", "L", "F1" or "F2F4"

vars == << planets, paused, time_step, status_text_img, centered_at,
           rotate_with, update_rate, profile, pc, rot_pos, ticks,
           c_presses, r_presses, saved_planets, planets_from >>

DEFAULT_UPDATE_RATE == 1

NoImage == [is_some |-> FALSE, text |-> << >>]
Image(text) == [is_some |-> TRUE, text |-> text]

NotSaved == [is_some |-> FALSE, planets |-> << >>]
Saved(ps) == [is_some |-> TRUE, planets |-> ps]

\* State::new
Init ==
    /\ profile \in InitialProfiles
    /\ planets = LoadOrDefault(profile)
    /\ paused = TRUE
    /\ time_step = DEFAULT_TIME_STEP
    /\ status_text_img = NoImage
    /\ centered_at = Barycenter
    /\ rotate_with = None
    /\ update_rate = DEFAULT_UPDATE_RATE
    /\ pc = "idle"
    /\ rot_pos = 0
    /\ ticks = 0
    /\ c_presses = 0
    /\ r_presses = 0
    /\ saved_planets = NotSaved
    /\ planets_from = "new"

\* Update integrating whatever the pause flag says
Update_IgnoresPause ==
    /\ pc = "idle"
    /\ UNCHANGED << paused, time_step, status_text_img, centered_at,
                    rotate_with, update_rate, profile, pc, rot_pos,
                    c_presses, r_presses, saved_planets >>
    /\ ticks < MaxTicks
    /\ ticks' = ticks + 1
    /\ planets_from' = "integrate"
    /\ planets' = integrate(time_step, planets)

\* State::update
Update ==
    /\ pc = "idle"
    /\ UNCHANGED << paused, time_step, status_text_img, centered_at,
                    rotate_with, update_rate, profile, pc, rot_pos,
                    c_presses, r_presses, saved_planets >>
    /\ IF ~paused
       THEN /\ ticks < MaxTicks
            /\ ticks' = ticks + 1
            /\ planets_from' = "integrate"
            /\ planets' = integrate(time_step, planets)
       ELSE UNCHANGED << planets, planets_from, ticks >>

\* Key::Space
KeySpace ==
    /\ pc = "idle"
    /\ UNCHANGED planets_from
    /\ status_text_img' = NoImage
    /\ paused' = ~paused
    /\ UNCHANGED << planets, time_step, centered_at, rotate_with, update_rate,
                    profile, pc, rot_pos, ticks, c_presses, r_presses,
                    saved_planets >>

\* KeyMultiply leaving the cached status text in place
KeyMultiply_KeepsCache ==
    /\ pc = "idle"
    /\ UNCHANGED planets_from
    /\ time_step * update_rate < Pow2(MaxDoublings)
    /\ UNCHANGED status_text_img
    /\ time_step' = time_step * 2
    /\ UNCHANGED << planets, paused, centered_at, rotate_with, update_rate,
                    profile, pc, rot_pos, ticks, c_presses, r_presses,
                    saved_planets >>

\* Key::Multiply
KeyMultiply ==
    /\ pc = "idle"
    /\ UNCHANGED planets_from
    /\ time_step * update_rate < Pow2(MaxDoublings)
    /\ status_text_img' = NoImage
    /\ time_step' = time_step * 2
    /\ UNCHANGED << planets, paused, centered_at, rotate_with, update_rate,
                    profile, pc, rot_pos, ticks, c_presses, r_presses,
                    saved_planets >>

\* Key::Divide
KeyDivide ==
    /\ pc = "idle"
    /\ UNCHANGED planets_from
    /\ time_step > DEFAULT_TIME_STEP
    /\ status_text_img' = NoImage
    /\ time_step' = time_step \div 2
    /\ UNCHANGED << planets, paused, centered_at, rotate_with, update_rate,
                    profile, pc, rot_pos, ticks, c_presses, r_presses,
                    saved_planets >>

\* Key::Add
KeyAdd ==
    /\ pc = "idle"
    /\ UNCHANGED planets_from
    /\ update_rate > DEFAULT_UPDATE_RATE
    /\ status_text_img' = NoImage
    /\ update_rate' = update_rate \div 2
    /\ UNCHANGED << planets, paused, time_step, centered_at, rotate_with,
                    profile, pc, rot_pos, ticks, c_presses, r_presses,
                    saved_planets >>

\* Key::Subtract
KeySubtract ==
    /\ pc = "idle"
    /\ UNCHANGED planets_from
    /\ time_step * update_rate < Pow2(MaxDoublings)
    /\ status_text_img' = NoImage
    /\ update_rate' = update_rate * 2
    /\ UNCHANGED << planets, paused, time_step, centered_at, rotate_with,
                    profile, pc, rot_pos, ticks, c_presses, r_presses,
                    saved_planets >>

\* KeyS losing the planet set when the write fails
KeyS_DropsOnFailure ==
    /\ pc = "idle"
    /\ UNCHANGED << paused, time_step, status_text_img, centered_at,
                    rotate_with, update_rate, rot_pos, ticks, c_presses,
                    r_presses, planets_from >>
    /\ \/ /\ profile' = JsonFile(to_json(planets))
          /\ saved_planets' = Saved(planets)
          /\ pc' = pc
          /\ UNCHANGED planets
       \/ /\ pc' = "panicked"
          /\ planets' = << >>
          /\ UNCHANGED << profile, saved_planets >>

\* Key::S; save(..).expect(..) panics when the write fails
KeyS ==
    /\ pc = "idle"
    /\ UNCHANGED << planets, paused, time_step, status_text_img, centered_at,
                    rotate_with, update_rate, rot_pos, ticks, c_presses,
                    r_presses, planets_from >>
    /\ \/ /\ profile' = JsonFile(to_json(planets))
          /\ saved_planets' = Saved(planets)
          /\ pc' = pc
       \/ /\ pc' = "panicked"
          /\ UNCHANGED << profile, saved_planets >>

\* Key::L
KeyL ==
    /\ pc = "idle"
    /\ UNCHANGED << paused, time_step, status_text_img, centered_at,
                    rotate_with, update_rate, profile, pc, rot_pos, ticks,
                    saved_planets >>
    /\ planets_from' = "L"
    /\ planets' = LoadOrDefault(profile)
    /\ c_presses' = 0
    /\ r_presses' = 0

\* Key::F1
KeyF1 ==
    /\ pc = "idle"
    /\ planets_from' = "F1"
    /\ planets' = get_planets
    /\ c_presses' = 0
    /\ r_presses' = 0
    /\ UNCHANGED << paused, time_step, status_text_img, centered_at,
                    rotate_with, update_rate, profile, pc, rot_pos, ticks,
                    saved_planets >>

\* load_planets leaving the references and the cached text as they are
load_planets_KeepsReferences(f) ==
    IF f.kind = "missing"
    THEN /\ pc' = "panicked"
         /\ UNCHANGED << planets, centered_at, rotate_with, status_text_img,
                         c_presses, r_presses, planets_from >>
    ELSE /\ pc' = pc
         /\ planets_from' = "F2F4"
         /\ c_presses' = 0
         /\ r_presses' = 0
         /\ UNCHANGED << centered_at, rotate_with, status_text_img >>
         /\ planets' = LoadOrDefault(f)

\* Space::load_planets on the file f found under filename;
\* load_file(..).wait().expect(..) panics when the file cannot be read
load_planets(f) ==
    IF f.kind = "missing"
    THEN /\ pc' = "panicked"
         /\ UNCHANGED << planets, centered_at, rotate_with, status_text_img,
                         c_presses, r_presses, planets_from >>
    ELSE /\ pc' = pc
         /\ planets_from' = "F2F4"
         /\ c_presses' = 0
         /\ r_presses' = 0
         /\ centered_at' = Barycenter
         /\ rotate_with' = None
         /\ status_text_img' = NoImage
         /\ planets' = LoadOrDefault(f)

\* Key::F2, Key::F3, Key::F4
KeyF2F4 ==
    /\ pc = "idle"
    /\ UNCHANGED << paused, time_step, update_rate, profile, rot_pos, ticks,
                    saved_planets >>
    /\ \E f \in Files : load_planets(f)

\* NextCenter comparing against len instead of len - 1
NextCenter_OffByOne(c, n) ==
    IF c.tag = "Barycenter" THEN Planet(0)
    ELSE IF c.i < n THEN Planet(c.i + 1)
    ELSE Barycenter

\* the match of Key::C for a non-empty planet set of n planets
NextCenter(c, n) ==
    IF c.tag = "Barycenter" THEN Planet(0)
    ELSE IF c.i < n - 1 THEN Planet(c.i + 1)
    ELSE Barycenter

\* Key::C.  With an empty planet set planets.len() - 1 underflows usize: a
\* build with overflow checks panics, a build without them wraps to
\* usize::MAX, and then i < usize::MAX selects Planet(i + 1).
KeyC ==
    /\ pc = "idle"
    /\ status_text_img' = NoImage
    /\ IF centered_at.tag = "Planet" /\ Len(planets) = 0
       THEN \/ /\ pc' = "panicked"
               /\ UNCHANGED << centered_at, c_presses >>
            \/ /\ centered_at.i < MaxStaleIndex
               /\ centered_at' = Planet(centered_at.i + 1)
               /\ c_presses' = IF c_presses > 0 THEN c_presses + 1 ELSE 0
               /\ pc' = pc
       ELSE /\ centered_at' = NextCenter(centered_at, Len(planets))
            /\ c_presses' = IF centered_at = Barycenter THEN 1
                            ELSE IF c_presses > 0 THEN c_presses + 1
                            ELSE 0
            /\ pc' = pc
    /\ r_presses' = 0
    /\ UNCHANGED << planets, paused, time_step, rotate_with, update_rate,
                    profile, rot_pos, ticks, saved_planets, planets_from >>

\* Rotations with the chain in another order
Rotations_BarycenterLast(n) ==
    << None >> \o [k \in 1..n |-> Some(Planet(k - 1))] \o << Some(Barycenter) >>

\* one period of `rotations`:
\* once(None).chain(once(Some(Barycenter))).chain(some_planets)
Rotations(n) ==
    << None, Some(Barycenter) >> \o [k \in 1..n |-> Some(Planet(k - 1))]

\* the position after the one at pos in the cycled iterator
Advance(pos, n) == IF pos = Len(Rotations(n)) THEN 1 ELSE pos + 1

\* rotations.find(|found| *found == self.rotate_with) started at pos with
\* left elements of the period not yet seen: the position of the iterator
\* after the match, or 0 when a whole period holds no match
RECURSIVE Find(_, _, _, _)
Find(pos, left, r, n) ==
    IF left = 0 THEN 0
    ELSE IF Rotations(n)[pos] = r THEN Advance(pos, n)
    ELSE Find(Advance(pos, n), left - 1, r, n)

\* NextRot without the skip
NextRot_NoSkip(pos, c, n) == Rotations(n)[pos]

\* the candidate taken after find returned, with the skip of centered_at
NextRot(pos, c, n) ==
    LET next_rot == Rotations(n)[pos]
    IN  IF next_rot.is_some /\ next_rot.obj = c
        THEN Rotations(n)[Advance(pos, n)]
        ELSE next_rot

ValidRef(o, n) == o.tag = "Planet" => o.i < n

\* Key::R.  When rotate_with is a value of the cycle, find returns and the
\* handler runs to its end; otherwise find is still running after a whole
\* period (pc = "find").
KeyR ==
    /\ pc = "idle"
    /\ UNCHANGED << planets, paused, time_step, centered_at, update_rate,
                    profile, ticks, c_presses, saved_planets, planets_from >>
    /\ status_text_img' = NoImage
    /\ LET n == Len(planets)
           found == Find(1, Len(Rotations(n)), rotate_with, n)
       IN  IF found # 0
           THEN /\ rotate_with' = NextRot(found, centered_at, n)
                /\ r_presses' =
                      IF rotate_with = None /\ ValidRef(centered_at, n) THEN 1
                      ELSE IF r_presses > 0 THEN r_presses + 1
                      ELSE 0
                /\ UNCHANGED << pc, rot_pos >>
           ELSE /\ pc' = "find"
                /\ rot_pos' = 1
                /\ UNCHANGED << rotate_with, r_presses >>

\* one more iteration of find in the cycled iterator
RFind ==
    /\ pc = "find"
    /\ Rotations(Len(planets))[rot_pos] # rotate_with
    /\ rot_pos' = Advance(rot_pos, Len(planets))
    /\ UNCHANGED << planets, paused, time_step, status_text_img, centered_at,
                    rotate_with, update_rate, profile, pc, ticks, c_presses,
                    r_presses, saved_planets, planets_from >>

\* the text composed by maybe_refresh_status_text
Centering(c) == IF c.tag = "Barycenter" THEN << "barycenter" >>
                ELSE << "planet #", c.i >>
Rotation(r) == IF ~r.is_some THEN << "no" >>
               ELSE IF r.obj.tag = "Barycenter" THEN << "barycenter" >>
               ELSE << "fixing planet #", r.obj.i >>
StatusText ==
    [centering |-> Centering(centered_at), rotation |-> Rotation(rotate_with),
     paused |-> paused, time_step |-> time_step, update_rate |-> update_rate]

\* the indexing planets[i] of draw is within bounds
DrawInBounds ==
    /\ ValidRef(centered_at, Len(planets))
    /\ rotate_with.is_some => ValidRef(rotate_with.obj, Len(planets))

\* State::draw: an index out of bounds panics; otherwise the status text is
\* rendered when the cache is empty
Draw ==
    /\ pc = "idle"
    /\ IF DrawInBounds
       THEN /\ status_text_img' = IF status_text_img.is_some
                                  THEN status_text_img
                                  ELSE Image(StatusText)
            /\ pc' = pc
       ELSE /\ pc' = "panicked"
            /\ UNCHANGED status_text_img
    /\ UNCHANGED << planets, paused, time_step, centered_at, rotate_with,
                    update_rate, profile, rot_pos, ticks, c_presses,
                    r_presses, saved_planets, planets_from >>

Next ==
    \/ Update
    \/ KeySpace
    \/ KeyMultiply
    \/ KeyDivide
    \/ KeyAdd
    \/ KeySubtract
    \/ KeyS
    \/ KeyL
    \/ KeyF1
    \/ KeyF2F4
    \/ KeyC
    \/ KeyR
    \/ RFind
    \/ Draw

Spec == Init /\ [][Next]_vars

\* the handler of Key::R runs to its end once the event is dispatched
FairSpec == Spec /\ WF_vars(RFind)

\* integrate on its own: a running session holding any of the input sets
\* at either time step, and the ticks that integrate it
IntegrateInit ==
    /\ planets \in IntegrateInputs
    /\ time_step \in { DEFAULT_TIME_STEP, 2 * DEFAULT_TIME_STEP }
    /\ paused = FALSE
    /\ status_text_img = NoImage
    /\ centered_at = Barycenter
    /\ rotate_with = None
    /\ update_rate = DEFAULT_UPDATE_RATE
    /\ profile = NoFile
    /\ pc = "idle"
    /\ rot_pos = 0
    /\ ticks = 0
    /\ c_presses = 0
    /\ r_presses = 0
    /\ saved_planets = NotSaved
    /\ planets_from = "F2F4"

IntegrateSpec == IntegrateInit /\ [][Update]_vars

(* ------------------------------ claims --------------------------------- *)

\* C1: in every reachable state rotate_with is never Some(r) with r equal
\* to centered_at.
C1_MutualExclusion ==
    ~(rotate_with.is_some /\ rotate_with.obj = centered_at)

\* C2: in every reachable state a reference Planet(i) held by centered_at
\* or by rotate_with has i < len(planets), so the lookups of draw are
\* within bounds.
C2_ReferenceIndexValid ==
    pc # "panicked" => DrawInBounds

\* C3: every command that replaces the planet set wholesale (Key::L,
\* Key::F1, Key::F2..F4) leaves centered_at = Barycenter and
\* rotate_with = None in the state right after it.
C3_ReplaceResetsReferences ==
    [][(KeyL \/ KeyF1 \/ KeyF2F4) /\ pc' # "panicked"
        => centered_at' = Barycenter /\ rotate_with' = None]_vars

\* C4: the Key::R handler always terminates: once the search for
\* rotate_with in the cycle has started, the handler returns.
C4_CycleRotationTerminates ==
    (pc = "find") ~> (pc = "idle")

\* C5: on every load path a load failure (missing file, malformed buffer,
\* schema mismatch) makes the planet set the default generator's output and
\* never ends the session with a panic.
C5_LoadFailureFallsBack ==
    /\ planets_from = "new" /\ ~saved_planets.is_some /\ ~DecodeOk(profile)
        => planets = get_planets
    /\ [][/\ (KeyL \/ KeyF2F4) => pc' # "panicked"
          /\ KeyL /\ ~DecodeOk(profile) => planets' = get_planets
          /\ KeyF2F4 => \E f \in Files : planets' = LoadOrDefault(f)]_vars

\* the value after r in None, Some(Barycenter), Some(Planet(0)), ...,
\* Some(Planet(n-1)), None, ...
SuccRot(r, n) ==
    IF ~r.is_some THEN Some(Barycenter)
    ELSE IF r.obj.tag = "Barycenter"
         THEN (IF n >= 1 THEN Some(Planet(0)) ELSE None)
    ELSE IF r.obj.i + 1 < n THEN Some(Planet(r.obj.i + 1))
    ELSE None

\* C6: right after a Key::R issued with rotate_with a value of the cycle, the
\* committed rotate_with is not Some(centered_at); it is the value after the
\* old one, or the value after that when the first candidate is
\* Some(centered_at).
C6_RotationSkipsCenter ==
    [][KeyR /\ pc' = "idle" =>
        LET first == SuccRot(rotate_with, Len(planets))
        IN  /\ ~(rotate_with'.is_some /\ rotate_with'.obj = centered_at')
            /\ rotate_with' = IF first = Some(centered_at)
                              THEN SuccRot(first, Len(planets))
                              ELSE first]_vars

\* a Key::R from None with the view centered on the barycenter has skipped
\* Some(Barycenter)
C6_Witness ==
    /\ pc = "idle" /\ r_presses = 1
    /\ centered_at = Barycenter
    /\ rotate_with = Some(Planet(0))

\* C7: with n >= 1 planets not replaced in between and starting from
\* Barycenter, the k-th consecutive Key::C (1 <= k <= n) leaves
\* centered_at = Planet(k-1) and the (n+1)-th leaves Barycenter.
C7_CenterCycle ==
    LET n == Len(planets)
    IN  (n >= 1 /\ c_presses > 0) =>
            /\ c_presses <= n + 1
            /\ c_presses <= n => centered_at = Planet(c_presses - 1)
            /\ c_presses = n + 1 => centered_at = Barycenter

\* n + 1 presses of Key::C on a set of several planets are back at Barycenter
C7_Witness ==
    /\ Len(planets) >= 2
    /\ c_presses = Len(planets) + 1
    /\ centered_at = Barycenter

\* the value rotate_with holds after k Key::R events from None, 1 <= k, for
\* n planets and the view centered at c: the k-th value after None of the
\* sequence None, Some(Barycenter), Some(Planet(0)), .. with Some(c) left out
ExpectedRot(k, n, c) ==
    LET skip == IF c.tag = "Barycenter" THEN 1 ELSE c.i + 2
        idx == IF k < skip THEN k ELSE k + 1
    IN  IF idx >= n + 2 THEN None
        ELSE IF idx = 1 THEN Some(Barycenter)
        ELSE Some(Planet(idx - 2))

\* C8: with n >= 1 planets and centered_at fixed at a valid c, consecutive
\* Key::R events from None visit None, Some(Barycenter), Some(Planet(0)),
\* .., Some(Planet(n-1)) in that order with Some(c) left out, and rotate_with
\* is None again after exactly n + 1 of them.
C8_RotationCycleOrder ==
    LET n == Len(planets)
    IN  (n >= 1 /\ r_presses > 0) =>
            /\ r_presses <= n + 1
            /\ rotate_with = ExpectedRot(r_presses, n, centered_at)
            /\ rotate_with = None <=> r_presses = n + 1

\* a whole round of Key::R with the view centered on a planet
C8_Witness ==
    /\ Len(planets) >= 2
    /\ centered_at.tag = "Planet"
    /\ r_presses = Len(planets) + 1
    /\ rotate_with = None
    /\ pc = "idle"

\* no number of the planet set is NaN
AllFinite(ps) ==
    \A k \in 1..Len(ps) :
        /\ ~IsNaN(ps[k].position.x) /\ ~IsNaN(ps[k].position.y)
        /\ ~IsNaN(ps[k].velocity.x) /\ ~IsNaN(ps[k].velocity.y)
        /\ ~IsNaN(ps[k].mass)

\* C9 as stated: after a successful save of P and any events that do not
\* save again, Key::L sets the planet set to exactly P.
C9_RoundTripAnySet ==
    [][KeyL /\ saved_planets.is_some
        => planets' = saved_planets.planets]_vars

\* C9 amended: the same for every P all of whose numbers are finite.
C9_RoundTripFinite ==
    [][KeyL /\ saved_planets.is_some
          /\ AllFinite(saved_planets.planets)
        => planets' = saved_planets.planets]_vars

\* a Key::L after a tick has restored the two moving planets saved before
C9_Witness ==
    /\ planets_from = "L"
    /\ ticks >= 1
    /\ saved_planets = Saved(SysTwo)
    /\ planets = SysTwo

\* C10: a Key::S, whether the write succeeds or fails, leaves planets,
\* centered_at, rotate_with, paused and time_step unchanged.
C10_SaveLeavesSession ==
    [][KeyS =>
        UNCHANGED << planets, centered_at, rotate_with, paused,
                     time_step >>]_vars

\* a save that succeeded in a running session with both references set
C10_Witness ==
    /\ saved_planets = Saved(planets)
    /\ pc = "idle"
    /\ ~paused
    /\ centered_at.tag = "Planet"
    /\ rotate_with.is_some

\* C11: a tick (update), paused or not, leaves centered_at, rotate_with,
\* paused and time_step unchanged and keeps the number of planets.
C11_TickKeepsReferences ==
    [][Update =>
        /\ UNCHANGED << centered_at, rotate_with, paused, time_step >>
        /\ Len(planets') = Len(planets)]_vars

\* a tick has moved two planets while both references held a planet and the
\* time step was doubled
C11_Witness ==
    /\ planets_from = "integrate"
    /\ Len(planets) = 2 /\ planets # SysTwo /\ AllFinite(planets)
    /\ centered_at = Planet(1)
    /\ rotate_with = Some(Planet(0))
    /\ ~paused
    /\ time_step = 2 * DEFAULT_TIME_STEP

\* C12: a tick replaces the planet set with integrate(time_step, planets)
\* exactly when paused is false (ticks counts those ticks), a tick while
\* paused leaves the planet set as it is, and Key::Space is the only step
\* that changes paused, which it flips.
C12_PauseGating ==
    [][/\ ticks' # ticks =>
            ~paused /\ planets' = integrate(time_step, planets)
       /\ paused /\ Update => planets' = planets
       /\ paused' # paused => KeySpace
       /\ KeySpace => paused' = ~paused]_vars

\* a session that was running, integrated two planets and is paused again
C12_Witness ==
    /\ paused
    /\ planets_from = "integrate"
    /\ ticks >= 1
    /\ Len(planets) = 2 /\ planets # SysTwo
    /\ pc = "idle"

\* C13: in every reachable state, loads of well-formed files and ticks
\* included, every planet of the planet set has mass > 0.
C13_MassPositive ==
    \A k \in 1..Len(planets) : planets[k].mass > 0

\* the pull of planet j of ps on planet i of ps
Pull(ps, i, j) ==
    LET d == VSub(ps[j].position, ps[i].position)
    IN  VScale(normalize(d), FDiv(ps[j].mass, len2(d)))

\* the sum, taken from the left, of the first k of the pulls on planet i
\* by the planets listed in js
RECURSIVE SumOfPulls(_, _, _, _)
SumOfPulls(ps, i, js, k) ==
    IF k = 0 THEN Vec(0, 0)
    ELSE VAdd(SumOfPulls(ps, i, js, k - 1), Pull(ps, i, js[k]))

\* the semi-implicit Euler step of the planet set ps over ts: every
\* acceleration from the positions and masses of ps itself, the velocity
\* from the acceleration, the position from the new velocity
SemiImplicitEuler(ts, ps) ==
    [i \in 1..Len(ps) |->
        LET js == SelectSeq([j \in 1..Len(ps) |-> j], LAMBDA j : j # i)
            a == SumOfPulls(ps, i, js, Len(js))
            v == VAdd(ps[i].velocity, VScaleT(a, ts))
        IN  [position |-> VAdd(ps[i].position, VScaleT(v, ts)),
             velocity |-> v,
             mass |-> ps[i].mass,
             color |-> ps[i].color]]

PairwiseDistinct(ps) ==
    \A i, j \in 1..Len(ps) : i # j => ps[i].position # ps[j].position

\* C14: for every planet set with pairwise distinct positions a tick leaves
\* the semi-implicit Euler step of the set it found: accelerations from the
\* input set only, new velocity v + a * time_step, new position
\* p + (new velocity) * time_step, mass and color copied, same length and
\* order.
C14_SemiImplicitEuler ==
    [][Update /\ PairwiseDistinct(planets)
        => planets' = SemiImplicitEuler(time_step, planets)]_vars

\* one tick at the default time step over four planets at different places
C14_Witness ==
    /\ ticks = 1
    /\ planets = SemiImplicitEuler(DEFAULT_TIME_STEP,
                                    << Probe, Heavy, NearA, NearB >>)
    /\ planets # << Probe, Heavy, NearA, NearB >>
    /\ AllFinite(planets)

\* the orders in which n planets can be listed
Perms(n) ==
    { p \in [1..n -> 1..n] : \A a, b \in 1..n : a # b => p[a] # p[b] }
Permute(ps, p) == [k \in 1..Len(ps) |-> ps[p[k]]]

\* C15 as stated: for every planet set and every permutation of it,
\* integrating the permuted set yields the permutation of the integrated
\* set.
C15_OrderSymmetryAnySet ==
    [][Update =>
        \A p \in Perms(Len(planets)) :
            integrate(time_step, Permute(planets, p)) = Permute(planets', p)
      ]_vars

\* C15 amended: the same for every planet set of at most three planets,
\* where each acceleration is a sum of at most two pulls.
C15_OrderSymmetryUpToThree ==
    [][Update /\ Len(planets) <= 3 =>
        \A p \in Perms(Len(planets)) :
            integrate(time_step, Permute(planets, p)) = Permute(planets', p)
      ]_vars

\* one tick over three planets at different places
C15_Witness ==
    /\ ticks = 1
    /\ planets = integrate(DEFAULT_TIME_STEP, << Probe, Heavy, NearA >>)
    /\ planets # << Probe, Heavy, NearA >>
    /\ AllFinite(planets)

\* C16: a session starts with centered_at = Barycenter and
\* rotate_with = None, its planet set the persisted one when the startup
\* load succeeds and the four planets of the default generator otherwise;
\* the session is as constructed until a Key::C, a Key::R, a tick, a load
\* or a save.
C16_InitialState ==
    (/\ planets_from = "new" /\ c_presses = 0 /\ r_presses = 0
     /\ ~saved_planets.is_some)
    => /\ centered_at = Barycenter
       /\ rotate_with = None
       /\ IF DecodeOk(profile)
          THEN planets = from_slice(profile)
          ELSE planets = get_planets /\ Len(planets) = 4

\* a session constructed from a saved profile of one planet
C16_Witness ==
    /\ planets_from = "new" /\ c_presses = 0 /\ r_presses = 0
    /\ ~saved_planets.is_some
    /\ profile = JsonFile(to_json(SysOne))
    /\ planets = SysOne
    /\ centered_at = Barycenter
    /\ rotate_with = None

\* C17: whenever draw computes the barycenter, and whenever Key::C
\* evaluates planets.len() - 1 (centered_at is a planet), the planet set is
\* not empty.
C17_NonEmptyWhereRequired ==
    [][(Draw \/ (centered_at.tag = "Planet" /\ KeyC))
        => Len(planets) >= 1]_vars

\* planet i of ps is at exactly the position of another planet of ps
Coincident(ps, i) ==
    /\ ~IsNaN(ps[i].position.x) /\ ~IsNaN(ps[i].position.y)
    /\ \E j \in 1..Len(ps) : j # i /\ ps[j].position = ps[i].position

\* C18: a tick over a planet set with two planets at exactly the same
\* position is integrated like any other: the division by the zero squared
\* distance and the normalisation of the zero vector are carried out, the
\* velocity and position of those planets come out as NaN, and the session
\* goes on; no load or tick refuses such a set.
C18_CoincidentNotDefended ==
    [][(\E i \in 1..Len(planets) : Coincident(planets, i)) /\ Update
          /\ ~paused
        => /\ pc' = "idle"
           /\ Len(planets') = Len(planets)
           /\ \A i \in 1..Len(planets) :
                 Coincident(planets, i) =>
                    /\ IsNaN(planets'[i].velocity.x)
                    /\ IsNaN(planets'[i].velocity.y)
                    /\ IsNaN(planets'[i].position.x)
                    /\ IsNaN(planets'[i].position.y)]_vars

\* a session that loaded two planets at one position, integrated them and
\* goes on with NaN for their positions
C18_Witness ==
    /\ planets_from = "integrate"
    /\ pc = "idle"
    /\ Len(planets) = 2
    /\ IsNaN(planets[1].position.x) /\ IsNaN(planets[2].position.x)
    /\ planets[1].mass = SysCoincident[1].mass

\* what the readable files deserialise to, the default generator's output
\* standing for those that do not deserialise
ReadablePlanetSets ==
    { IF DecodeOk(f) THEN from_slice(f) ELSE get_planets :
        f \in { g \in Files : g.kind # "missing" } }

\* C19: in the state after load_planets returned (Key::F2..F4), the planet
\* set is what the file deserialises to or the default generator's output,
\* centered_at = Barycenter, rotate_with = None, the cached status text is
\* absent, and paused and time_step are what they were.
C19_LoadPlanetsAtomic ==
    [][KeyF2F4 /\ pc' = "idle" =>
        /\ planets' \in ReadablePlanetSets
        /\ centered_at' = Barycenter
        /\ rotate_with' = None
        /\ status_text_img' = NoImage
        /\ UNCHANGED << paused, time_step >>]_vars

\* a sample system loaded into a running session after a tick, at a
\* doubled time step
C19_Witness ==
    /\ planets_from = "F2F4"
    /\ planets = SysTwo
    /\ ticks >= 1
    /\ ~paused
    /\ time_step = 2 * DEFAULT_TIME_STEP
    /\ centered_at = Barycenter
    /\ rotate_with = None
    /\ status_text_img = NoImage

\* C20: whenever the cached status image is present, it shows the text of
\* the current centered_at, rotate_with, paused, time_step and update rate;
\* and a draw that finds the image present leaves it in place.
C20_StatusTextCoherent ==
    /\ [](status_text_img.is_some => status_text_img = Image(StatusText))
    /\ [][Draw /\ status_text_img.is_some
            => UNCHANGED status_text_img]_vars

\* a status image rendered after the time step was doubled, the session
\* set running and both references moved to planets
C20_Witness ==
    /\ status_text_img.is_some
    /\ status_text_img.text.time_step = 2 * DEFAULT_TIME_STEP
    /\ status_text_img.text.paused = FALSE
    /\ status_text_img.text.centering = << "planet #", 1 >>
    /\ status_text_img.text.rotation = << "fixing planet #", 0 >>

====
